---- MODULE Spec2Model ----
(***************************************************************************)
(* Model of the Atlas DNS Python SDK request pipeline                      *)
(* (sdk/python/src/atlas_dns/client.py): BaseClient._handle_response, the  *)
(* backoff-decorated _request of AtlasDNSClient and AsyncAtlasDNSClient,   *)
(* the delete facade methods, and the clients' enter/exit/close hooks.     *)
(***************************************************************************)
EXTENDS Integers, Sequences, FiniteSets, TLC

(* ------------------------------ bounds --------------------------------- *)

\* longest response body, in characters
MaxBody == 3
\* largest max_retries value a client is constructed with
MaxRetriesCfg == 4
\* cap on the number of close() invocations that are counted
MaxCloseCalls == 3
\* number of _request calls in flight on one client
NumCalls == 2
\* longest path component of a configured base address, in tokens
MaxBaseTail == 3

(* --------------------------- program constants ------------------------- *)

\* max_tries of the backoff.on_exception decorator of AtlasDNSClient._request
Sync_max_tries == 3
\* max_tries of the backoff.on_exception decorator of AsyncAtlasDNSClient._request
Async_max_tries == 3
\* default value of the max_retries constructor argument
DefaultMaxRetries == 3

(* ------------------------------ responses ------------------------------ *)

\* characters a response body is made of
BodyChars == {"[", "]", ",", "1"}

RECURSIVE SeqsUpTo(_, _)
SeqsUpTo(S, n) ==
    IF n = 0 THEN {<<>>}
    ELSE LET shorter == SeqsUpTo(S, n - 1)
         IN  shorter \cup {Append(s, x) : s \in {t \in shorter : Len(t) = n - 1}, x \in S}

Bodies == SeqsUpTo(BodyChars, MaxBody)

\* status codes a response may carry
Statuses == {200, 201, 204, 302, 399, 400, 401, 403, 404, 409, 418, 422, 429,
             499, 500, 502, 503, 599}

Response(status, body) == [status_code |-> status, text |-> body]

(* ------------------------------- JSON ---------------------------------- *)

\* decoded values: numbers and (nested) arrays
JNum(n) == [t |-> "num", n |-> n, items |-> <<>>]
JArr(items) == [t |-> "arr", n |-> 0, items |-> items]

ParseFail == [ok |-> FALSE, value |-> JNum(0), next |-> 0]
ParseOk(v, next) == [ok |-> TRUE, value |-> v, next |-> next]

\* the number read from the digits of s that start at position i
RECURSIVE ParseDigits(_, _, _)
ParseDigits(s, i, acc) ==
    IF i <= Len(s) /\ s[i] = "1"
    THEN ParseDigits(s, i + 1, 10 * acc + 1)
    ELSE ParseOk(JNum(acc), i)

RECURSIVE ParseValue(_, _)
RECURSIVE ParseItems(_, _, _)
ParseValue(s, i) ==
    IF i > Len(s) THEN ParseFail
    ELSE IF s[i] = "1" THEN ParseDigits(s, i, 0)
    ELSE IF s[i] = "["
    THEN IF i + 1 <= Len(s) /\ s[i + 1] = "]"
         THEN ParseOk(JArr(<<>>), i + 2)
         ELSE ParseItems(s, i + 1, <<>>)
    ELSE ParseFail

ParseItems(s, i, acc) ==
    LET r == ParseValue(s, i)
    IN  IF ~r.ok \/ r.next > Len(s) THEN ParseFail
        ELSE IF s[r.next] = "]" THEN ParseOk(JArr(Append(acc, r.value)), r.next + 1)
        ELSE IF s[r.next] = "," THEN ParseItems(s, r.next + 1, Append(acc, r.value))
        ELSE ParseFail

\* response.json(): the decoded body, or a JSONDecodeError (ok = FALSE)
json_loads(s) ==
    LET r == ParseValue(s, 1)
    IN  IF r.ok /\ r.next = Len(s) + 1 THEN r ELSE ParseFail

\* the JSON text of a decoded value (the encode half of the round trip)
DigitChars == <<"0", "1", "2", "3", "4", "5", "6", "7", "8", "9">>

RECURSIVE Digits(_)
Digits(n) ==
    IF n < 10 THEN <<DigitChars[n + 1]>>
    ELSE Append(Digits(n \div 10), DigitChars[(n % 10) + 1])

RECURSIVE json_dumps(_)
RECURSIVE JoinItems(_, _)
json_dumps(v) ==
    IF v.t = "num" THEN Digits(v.n)
    ELSE <<"[">> \o JoinItems(v.items, 1) \o <<"]">>

JoinItems(items, i) ==
    IF i > Len(items) THEN <<>>
    ELSE json_dumps(items[i]) \o
         (IF i < Len(items) THEN <<",">> ELSE <<>>) \o JoinItems(items, i + 1)

(* ------------------------------ results -------------------------------- *)

NoJson == JNum(0)

\* what a call yields: a decoded structure, a raw text, a boolean, or a failure
NoResult == [tag |-> "none", json |-> NoJson, text |-> <<>>, flag |-> FALSE, err |-> "none"]
JsonResult(v) == [tag |-> "json", json |-> v, text |-> <<>>, flag |-> FALSE, err |-> "none"]
TextResult(s) == [tag |-> "text", json |-> NoJson, text |-> s, flag |-> FALSE, err |-> "none"]
BoolResult(b) == [tag |-> "bool", json |-> NoJson, text |-> <<>>, flag |-> b, err |-> "none"]
Raise(kind) == [tag |-> "error", json |-> NoJson, text |-> <<>>, flag |-> FALSE, err |-> kind]

IsError(r) == r.tag = "error"

\* the exception classes of atlas_dns.exceptions
TypedErrors == {"AuthenticationError", "ResourceNotFoundError", "ValidationError",
                "RateLimitError", "ServerError", "AtlasDNSException"}

\* _handle_response without the 403 branch and with the 5xx test after the 4xx one
handle_response_misordered(response) ==
    IF response.status_code = 401 THEN Raise("AuthenticationError")
    ELSE IF response.status_code = 404 THEN Raise("ResourceNotFoundError")
    ELSE IF response.status_code = 422 THEN Raise("ValidationError")
    ELSE IF response.status_code = 429 THEN Raise("RateLimitError")
    ELSE IF response.status_code >= 400 THEN Raise("AtlasDNSException")
    ELSE IF response.status_code >= 500 THEN Raise("ServerError")
    ELSE LET decoded == json_loads(response.text)
         IN  IF decoded.ok THEN JsonResult(decoded.value)
             ELSE TextResult(response.text)

\* _handle_response letting the JSONDecodeError of response.json() escape
handle_response_strict(response) ==
    IF response.status_code = 401 THEN Raise("AuthenticationError")
    ELSE IF response.status_code = 403 THEN Raise("AuthenticationError")
    ELSE IF response.status_code = 404 THEN Raise("ResourceNotFoundError")
    ELSE IF response.status_code = 422 THEN Raise("ValidationError")
    ELSE IF response.status_code = 429 THEN Raise("RateLimitError")
    ELSE IF response.status_code >= 500 THEN Raise("ServerError")
    ELSE IF response.status_code >= 400 THEN Raise("AtlasDNSException")
    ELSE LET decoded == json_loads(response.text)
         IN  IF decoded.ok THEN JsonResult(decoded.value)
             ELSE Raise("json.JSONDecodeError")

\* BaseClient._handle_response
_handle_response(response) ==
    IF response.status_code = 401 THEN Raise("AuthenticationError")
    ELSE IF response.status_code = 403 THEN Raise("AuthenticationError")
    ELSE IF response.status_code = 404 THEN Raise("ResourceNotFoundError")
    ELSE IF response.status_code = 422 THEN Raise("ValidationError")
    ELSE IF response.status_code = 429 THEN Raise("RateLimitError")
    ELSE IF response.status_code >= 500 THEN Raise("ServerError")
    ELSE IF response.status_code >= 400 THEN Raise("AtlasDNSException")
    ELSE LET decoded == json_loads(response.text)
         IN  IF decoded.ok THEN JsonResult(decoded.value)
             ELSE TextResult(response.text)

(* --------------------------- transport outcomes ------------------------ *)

\* what one self.client.request(...) invocation ends with
TimeoutOutcome == [t |-> "timeout", status_code |-> 0, text |-> <<>>]
ConnectOutcome == [t |-> "connect", status_code |-> 0, text |-> <<>>]
\* any transport exception outside the decorator's tuple (read error, closed client, ...)
OtherOutcome == [t |-> "other", status_code |-> 0, text |-> <<>>]
ResponseOutcome(status, body) == [t |-> "response", status_code |-> status, text |-> body]

\* statuses and bodies the pipeline specifications draw responses from
WireStatuses == {200, 204, 400, 401, 403, 404, 422, 429, 500, 503}
WireBodies == {<<"[", "1", "]">>, <<"1", ",">>}

WireOutcomes ==
    {TimeoutOutcome, ConnectOutcome, OtherOutcome}
        \cup {ResponseOutcome(s, b) : s \in WireStatuses, b \in WireBodies}

\* a closed httpx client refuses every request with a RuntimeError
OutcomesWhen(closed) == IF closed THEN {OtherOutcome} ELSE WireOutcomes

\* the exception a failed transport invocation raises
TransportError(o) ==
    IF o.t = "timeout" THEN "httpx.TimeoutException"
    ELSE IF o.t = "connect" THEN "httpx.ConnectError"
    ELSE "httpx.TransportError"

(* ------------------------------- clients ------------------------------- *)

ClientClasses == {"AtlasDNSClient", "AsyncAtlasDNSClient"}

DeleteOps == {"delete_zone", "delete_record", "delete_health_check",
              "delete_traffic_policy", "delete_geodns_rule", "delete_webhook"}

\* the operations modelled on each client class
Ops(k) ==
    IF k = "AtlasDNSClient" THEN {"_request"} \cup DeleteOps
    ELSE {"_request", "delete_zone"}

VARIABLES
    cls,          \* class of the client under the lifecycle hooks
    max_retries,  \* self.max_retries
    client,       \* self.client: identity of the transport handle
    closeCalls,   \* invocations of self.client.close() / aclose()
    scope,        \* "outside", "entered" or "exited" the scoped block
    exitedBy,     \* how the scoped block was last left
    calls,        \* the calls on the client(s), by call id
    feed,         \* transport outcomes offered to both variants alike
    response,     \* the response handed to the response handler
    handled,      \* what the response handler made of it
    base_url,     \* self.base_url
    path,         \* the path argument of the last _request call
    url,          \* the url handed to self.client.request
    method,       \* the HTTP method of each call's request
    applied       \* how often the server has applied each call's request

vars == <<cls, max_retries, client, closeCalls, scope, exitedBy, calls, feed,
          response, handled, base_url, path, url, method, applied>>

\* the request address and the server's side of the calls
wireVars == <<base_url, path, url, method, applied>>

\* the default base address, and no request issued yet
DefaultBase == <<"http://localhost:5380">>
NoWire ==
    /\ base_url = DefaultBase
    /\ path = <<>>
    /\ url = <<>>
    /\ method = <<>>
    /\ applied = <<>>

IdleCall(k) ==
    [pc |-> "idle", cls |-> k, op |-> "_request", tries |-> 0, hist |-> <<>>,
     ret |-> NoResult, result |-> NoResult]

Last(call) == call.hist[Len(call.hist)]

(* ------------------------------- facade -------------------------------- *)

delete_zone(ret) == IF IsError(ret) THEN ret ELSE BoolResult(TRUE)
\* delete_record reporting a missing record as False
delete_record_swallow(ret) ==
    IF IsError(ret) /\ ret.err = "ResourceNotFoundError" THEN BoolResult(FALSE)
    ELSE IF IsError(ret) THEN ret
    ELSE BoolResult(TRUE)
delete_record(ret) == IF IsError(ret) THEN ret ELSE BoolResult(TRUE)
delete_health_check(ret) == IF IsError(ret) THEN ret ELSE BoolResult(TRUE)
delete_traffic_policy(ret) == IF IsError(ret) THEN ret ELSE BoolResult(TRUE)
delete_geodns_rule(ret) == IF IsError(ret) THEN ret ELSE BoolResult(TRUE)
delete_webhook(ret) == IF IsError(ret) THEN ret ELSE BoolResult(TRUE)
async_delete_zone(ret) == IF IsError(ret) THEN ret ELSE BoolResult(TRUE)

\* what the called method yields once its _request call has yielded ret
FacadeResult(k, op, ret) ==
    CASE op = "_request" -> ret
      [] op = "delete_zone" /\ k = "AtlasDNSClient" -> delete_zone(ret)
      [] op = "delete_zone" /\ k = "AsyncAtlasDNSClient" -> async_delete_zone(ret)
      [] op = "delete_record" -> delete_record(ret)
      [] op = "delete_health_check" -> delete_health_check(ret)
      [] op = "delete_traffic_policy" -> delete_traffic_policy(ret)
      [] op = "delete_geodns_rule" -> delete_geodns_rule(ret)
      [] op = "delete_webhook" -> delete_webhook(ret)

(* --------------------------- request pipeline -------------------------- *)

\* a tuple that leaves out httpx.ConnectError
Sync_retry_on_timeout_only(err) == err \in {"httpx.TimeoutException"}
\* a tuple that also retries server and rate-limit failures
Sync_retry_on_http(err) ==
    err \in {"httpx.TimeoutException", "httpx.ConnectError", "ServerError", "RateLimitError"}
\* the exception tuple of the decorator of AtlasDNSClient._request
Sync_retry_on(err) == err \in {"httpx.TimeoutException", "httpx.ConnectError"}
\* a tuple that leaves out httpx.ConnectError
Async_retry_on_timeout_only(err) == err \in {"httpx.TimeoutException"}
\* the exception tuple of the decorator of AsyncAtlasDNSClient._request
Async_retry_on(err) == err \in {"httpx.TimeoutException", "httpx.ConnectError"}

\* the body of _request: the transport outcome turned into a value or a failure
RequestBody(o) ==
    IF o.t = "response" THEN _handle_response(Response(o.status_code, o.text))
    ELSE Raise(TransportError(o))

Finish(call, tries, o, ret) ==
    [call EXCEPT !.pc = "done", !.tries = tries, !.hist = Append(@, o),
                 !.ret = ret, !.result = FacadeResult(call.cls, call.op, ret)]

Backoff(call, tries, o) ==
    [call EXCEPT !.tries = tries, !.hist = Append(@, o)]

\* one pass of the retry loop wrapped around AtlasDNSClient._request
Sync_request(call, o) ==
    LET tries == call.tries + 1
        ret == RequestBody(o)
    IN  IF IsError(ret) /\ Sync_retry_on(ret.err) /\ tries # Sync_max_tries
        THEN Backoff(call, tries, o)
        ELSE Finish(call, tries, o, ret)

\* one pass of the retry loop wrapped around AsyncAtlasDNSClient._request
Async_request(call, o) ==
    LET tries == call.tries + 1
        ret == RequestBody(o)
    IN  IF IsError(ret) /\ Async_retry_on(ret.err) /\ tries # Async_max_tries
        THEN Backoff(call, tries, o)
        ELSE Finish(call, tries, o, ret)

\* a retry counter kept on the client: a retry of one call counts for all in flight
StoreCallShared(cs, c, new) ==
    [x \in DOMAIN cs |->
        IF x = c THEN new
        ELSE IF cs[x].pc = "request" /\ new.pc = "request"
             THEN [cs[x] EXCEPT !.tries = @ + 1]
             ELSE cs[x]]
\* the retry counter is a local of the call's own wrapper invocation
StoreCall(cs, c, new) == [cs EXCEPT ![c] = new]

RequestStep(call, o) ==
    IF call.cls = "AtlasDNSClient" THEN Sync_request(call, o)
    ELSE Async_request(call, o)

(* ------------------- one client: scoped use and calls ------------------ *)

MainCalls == {1}

\* the state after AtlasDNSClient(...) / AsyncAtlasDNSClient(...) returns
Init ==
    /\ cls \in ClientClasses
    /\ max_retries \in 1..MaxRetriesCfg
    /\ client = 1
    /\ closeCalls = 0
    /\ scope = "outside"
    /\ exitedBy = "none"
    /\ calls = [c \in MainCalls |-> IdleCall(cls)]
    /\ feed = <<>>
    /\ response = Response(200, <<>>)
    /\ handled = NoResult
    /\ NoWire

Quiet == \A c \in DOMAIN calls : calls[c].pc # "request"

\* a facade method (or _request itself) is called
Call(c, op) ==
    /\ calls[c].pc # "request"
    /\ op \in Ops(calls[c].cls)
    /\ calls' = [calls EXCEPT ![c] = [IdleCall(calls[c].cls) EXCEPT !.pc = "request", !.op = op]]
    /\ UNCHANGED wireVars
    /\ UNCHANGED <<cls, max_retries, client, closeCalls, scope, exitedBy, feed,
                   response, handled>>

\* one transport attempt of a call in flight, with its outcome
Attempt(c, o) ==
    /\ calls[c].pc = "request"
    /\ o \in OutcomesWhen(closeCalls > 0)
    /\ calls' = StoreCall(calls, c, RequestStep(calls[c], o))
    /\ UNCHANGED wireVars
    /\ UNCHANGED <<cls, max_retries, client, closeCalls, scope, exitedBy, feed,
                   response, handled>>

\* __enter__ / __aenter__
Enter ==
    /\ scope # "entered"
    /\ Quiet
    /\ scope' = "entered"
    /\ UNCHANGED wireVars
    /\ UNCHANGED <<cls, max_retries, client, closeCalls, exitedBy, calls, feed,
                   response, handled>>

\* close(): self.client.close() / await self.client.aclose()
Close ==
    /\ Quiet
    /\ closeCalls < MaxCloseCalls
    /\ closeCalls' = closeCalls + 1
    /\ UNCHANGED wireVars
    /\ UNCHANGED <<cls, max_retries, client, scope, exitedBy, calls, feed,
                   response, handled>>

\* __exit__ / __aexit__ at the normal end of the scoped block
ExitNormal ==
    /\ scope = "entered"
    /\ Quiet
    /\ closeCalls < MaxCloseCalls
    /\ closeCalls' = closeCalls + 1
    /\ scope' = "exited"
    /\ exitedBy' = "normal"
    /\ UNCHANGED wireVars
    /\ UNCHANGED <<cls, max_retries, client, calls, feed, response, handled>>

\* __exit__ / __aexit__ with the exception of a failed call leaving the block
ExitError ==
    /\ scope = "entered"
    /\ \E c \in DOMAIN calls : calls[c].pc = "done" /\ IsError(calls[c].result)
    /\ Quiet
    /\ closeCalls < MaxCloseCalls
    /\ closeCalls' = closeCalls + 1
    /\ scope' = "exited"
    /\ exitedBy' = "exception"
    /\ UNCHANGED wireVars
    /\ UNCHANGED <<cls, max_retries, client, calls, feed, response, handled>>

Next ==
    \/ \E c \in MainCalls, op \in DeleteOps \cup {"_request"} : Call(c, op)
    \/ \E c \in MainCalls, o \in WireOutcomes : Attempt(c, o)
    \/ Enter
    \/ Close
    \/ ExitNormal
    \/ ExitError

Spec == Init /\ [][Next]_vars

(* ----------------------- the response handler alone -------------------- *)

Responses == {Response(s, b) : s \in Statuses, b \in Bodies}

InitHandler ==
    /\ cls = "AtlasDNSClient"
    /\ max_retries = DefaultMaxRetries
    /\ client = 1
    /\ closeCalls = 0
    /\ scope = "outside"
    /\ exitedBy = "none"
    /\ calls = <<>>
    /\ feed = <<>>
    /\ response \in Responses
    /\ handled = NoResult
    /\ NoWire

\* self._handle_response(response)
Handle ==
    /\ handled.tag = "none"
    /\ handled' = _handle_response(response)
    /\ UNCHANGED wireVars
    /\ UNCHANGED <<cls, max_retries, client, closeCalls, scope, exitedBy, calls,
                   feed, response>>

\* the transport hands over the next response
Receive(r) ==
    /\ handled.tag # "none"
    /\ response' = r
    /\ handled' = NoResult
    /\ UNCHANGED wireVars
    /\ UNCHANGED <<cls, max_retries, client, closeCalls, scope, exitedBy, calls, feed>>

NextHandler ==
    \/ Handle
    \/ \E r \in Responses : Receive(r)

SpecHandler == InitHandler /\ [][NextHandler]_vars

(* ------------------ concurrent calls on one client --------------------- *)

ConcCalls == 1..NumCalls

ConcOutcomes ==
    {TimeoutOutcome, ConnectOutcome, OtherOutcome,
     ResponseOutcome(200, <<"[", "1", "]">>), ResponseOutcome(200, <<"1", ",">>),
     ResponseOutcome(404, <<>>), ResponseOutcome(429, <<>>), ResponseOutcome(503, <<>>)}

InitConc ==
    /\ cls \in ClientClasses
    /\ max_retries = DefaultMaxRetries
    /\ client = 1
    /\ closeCalls = 0
    /\ scope = "outside"
    /\ exitedBy = "none"
    /\ calls = [c \in ConcCalls |-> IdleCall(cls)]
    /\ feed = <<>>
    /\ response = Response(200, <<>>)
    /\ handled = NoResult
    /\ NoWire

NextConc ==
    \/ \E c \in ConcCalls : Call(c, "_request")
    \/ \E c \in ConcCalls, o \in ConcOutcomes : Attempt(c, o)

SpecConc == InitConc /\ [][NextConc]_vars

(* --------------- both variants on the same transport outcomes ---------- *)

\* one call on a client of each class, named by the class
SyncCall == "AtlasDNSClient"
AsyncCall == "AsyncAtlasDNSClient"
EquivCalls == {SyncCall, AsyncCall}
ClassOf(c) == c

InitEquiv ==
    /\ cls = "AtlasDNSClient"
    /\ max_retries \in 1..MaxRetriesCfg
    /\ client = 1
    /\ closeCalls = 0
    /\ scope = "outside"
    /\ exitedBy = "none"
    /\ calls = [c \in EquivCalls |-> IdleCall(ClassOf(c))]
    /\ feed = <<>>
    /\ response = Response(200, <<>>)
    /\ handled = NoResult
    /\ NoWire

\* the same method is called on a client of each class
CallBoth(op) ==
    /\ \A c \in EquivCalls : calls[c].pc # "request"
    /\ calls' = [c \in EquivCalls |->
                    [IdleCall(ClassOf(c)) EXCEPT !.pc = "request", !.op = op]]
    /\ feed' = <<>>
    /\ UNCHANGED wireVars
    /\ UNCHANGED <<cls, max_retries, client, closeCalls, scope, exitedBy,
                   response, handled>>

\* the transports answer the next attempt of either call with outcome o
Offer(o) ==
    /\ \E c \in EquivCalls : calls[c].pc = "request"
    /\ \A c \in EquivCalls : calls[c].pc = "request" => Len(calls[c].hist) = Len(feed)
    /\ feed' = Append(feed, o)
    /\ UNCHANGED wireVars
    /\ UNCHANGED <<cls, max_retries, client, closeCalls, scope, exitedBy, calls,
                   response, handled>>

\* a call makes its next attempt and meets the outcome offered for it
Consume(c) ==
    /\ calls[c].pc = "request"
    /\ Len(calls[c].hist) < Len(feed)
    /\ calls' = StoreCall(calls, c, RequestStep(calls[c], feed[Len(calls[c].hist) + 1]))
    /\ UNCHANGED wireVars
    /\ UNCHANGED <<cls, max_retries, client, closeCalls, scope, exitedBy, feed,
                   response, handled>>

NextEquiv ==
    \/ \E op \in {"_request", "delete_zone"} : CallBoth(op)
    \/ \E o \in WireOutcomes : Offer(o)
    \/ \E c \in EquivCalls : Consume(c)

SpecEquiv == InitEquiv /\ [][NextEquiv]_vars

(* --------------------------- request address --------------------------- *)

\* An address is a sequence of tokens: the scheme and authority as one token,
\* then "/" and the names between the slashes.
UrlOrigins == {"http://localhost:5380", "https://dns.example.com"}
BaseTokens == {"/", "dns", "v1"}

\* the base_url values a client is constructed with
ConfiguredBases ==
    {<<o>> \o t : o \in UrlOrigins,
                  t \in {x \in SeqsUpTo(BaseTokens, MaxBaseTail) : x = <<>> \/ x[1] = "/"}}

\* str.rstrip(ch)
RECURSIVE rstrip(_, _)
rstrip(s, ch) ==
    IF Len(s) > 0 /\ s[Len(s)] = ch THEN rstrip(SubSeq(s, 1, Len(s) - 1), ch) ELSE s

\* the "/api/v2" of the f-string in _request
ApiPrefix == <<"/", "api", "/", "v2">>

\* identifiers interpolated into the path templates
ResourceIds == {"z1", "r1"}

\* the paths the facade methods hand to _request
OperationPaths ==
    {<<"/", "zones">>, <<"/", "health-checks">>, <<"/", "webhooks">>}
        \cup {<<"/", "zones", "/", z>> : z \in ResourceIds}
        \cup {<<"/", "zones", "/", z, "/", "validate">> : z \in ResourceIds}
        \cup {<<"/", "zones", "/", z, "/", "records">> : z \in ResourceIds}
        \cup {<<"/", "zones", "/", z, "/", "records", "/", r>> :
                 z \in ResourceIds, r \in ResourceIds}

\* str.split("/"): the token runs between the slashes of s, from position i on
RECURSIVE SplitFrom(_, _, _, _)
SplitFrom(s, i, cur, acc) ==
    IF i > Len(s) THEN Append(acc, cur)
    ELSE IF s[i] = "/" THEN SplitFrom(s, i + 1, <<>>, Append(acc, cur))
    ELSE SplitFrom(s, i + 1, Append(cur, s[i]), acc)

split(s) == SplitFrom(s, 1, <<>>, <<>>)

\* urljoin's removal of "." and ".." segments
RECURSIVE ResolveFrom(_, _, _)
ResolveFrom(segments, i, resolved) ==
    IF i > Len(segments) THEN resolved
    ELSE IF segments[i] = <<"..">>
    THEN ResolveFrom(segments, i + 1,
                     IF Len(resolved) > 0 THEN SubSeq(resolved, 1, Len(resolved) - 1)
                     ELSE resolved)
    ELSE IF segments[i] = <<".">> THEN ResolveFrom(segments, i + 1, resolved)
    ELSE ResolveFrom(segments, i + 1, Append(resolved, segments[i]))

resolved_path(segments) ==
    LET resolved == ResolveFrom(segments, 1, <<>>)
    IN  IF segments[Len(segments)] \in {<<".">>, <<"..">>}
        THEN Append(resolved, <<>>)
        ELSE resolved

\* "/".join(segments)
RECURSIVE join(_, _)
join(segments, i) ==
    IF i > Len(segments) THEN <<>>
    ELSE segments[i] \o (IF i < Len(segments) THEN <<"/">> ELSE <<>>) \o join(segments, i + 1)

\* urllib.parse.urljoin(base, ref) for a reference that is an absolute path, as
\* every "/api/v2..." is: scheme and authority of the base, path of the reference
urljoin(base, ref) ==
    LET joined == join(resolved_path(split(ref)), 1)
    IN  IF ref = <<>> THEN base
        ELSE <<base[1]>> \o (IF joined = <<>> THEN <<"/">> ELSE joined)

\* the state after construction with some base_url
InitUrl ==
    /\ cls \in ClientClasses
    /\ max_retries = DefaultMaxRetries
    /\ client = 1
    /\ closeCalls = 0
    /\ scope = "outside"
    /\ exitedBy = "none"
    /\ calls = <<>>
    /\ feed = <<>>
    /\ response = Response(200, <<>>)
    /\ handled = NoResult
    /\ base_url \in {rstrip(b, "/") : b \in ConfiguredBases}
    /\ path = <<>>
    /\ url = <<>>
    /\ method = <<>>
    /\ applied = <<>>

\* _request builds the url of the request for path p
RequestUrl(p) ==
    /\ path' = p
    /\ url' = urljoin(base_url, ApiPrefix \o p)
    /\ UNCHANGED <<cls, max_retries, client, closeCalls, scope, exitedBy, calls,
                   feed, response, handled, base_url, method, applied>>

NextUrl == \E p \in OperationPaths : RequestUrl(p)

SpecUrl == InitUrl /\ [][NextUrl]_vars

(* ---------------------- writes and the server's side ------------------- *)

\* the methods of the create, update and delete operations
WriteMethods == {"POST", "PUT", "DELETE"}

\* Whether the server can have received and applied the request of an attempt
\* that ended with outcome o: never when no connection was made, always when it
\* answered with success, never when it answered with an error; a timeout or
\* another transport error can strike before the request is sent or after it
\* was applied.
ServerMayHaveApplied(o) ==
    IF o.t = "connect" THEN {FALSE}
    ELSE IF o.t = "response" THEN {o.status_code < 400}
    ELSE {FALSE, TRUE}

InitWrite ==
    /\ cls \in ClientClasses
    /\ max_retries = DefaultMaxRetries
    /\ client = 1
    /\ closeCalls = 0
    /\ scope = "outside"
    /\ exitedBy = "none"
    /\ calls = [c \in MainCalls |-> IdleCall(cls)]
    /\ feed = <<>>
    /\ response = Response(200, <<>>)
    /\ handled = NoResult
    /\ base_url = DefaultBase
    /\ path = <<>>
    /\ url = <<>>
    /\ method = [c \in MainCalls |-> "GET"]
    /\ applied = [c \in MainCalls |-> 0]

\* a write operation hands its request to _request: POST as create_zone and
\* create_record do, PUT as update_zone does, DELETE as delete_zone does
WriteCall(c, mth) ==
    /\ calls[c].pc # "request"
    /\ mth \in WriteMethods
    /\ calls' = [calls EXCEPT ![c] =
                    [IdleCall(calls[c].cls) EXCEPT
                        !.pc = "request",
                        !.op = IF mth = "DELETE" THEN "delete_zone" ELSE "_request"]]
    /\ method' = [method EXCEPT ![c] = mth]
    /\ applied' = [applied EXCEPT ![c] = 0]
    /\ UNCHANGED <<cls, max_retries, client, closeCalls, scope, exitedBy, feed,
                   response, handled, base_url, path, url>>

\* one transport attempt of a write in flight: its outcome o, and whether the
\* server applied the request it carried
WriteAttempt(c, o, got) ==
    /\ calls[c].pc = "request"
    /\ got \in ServerMayHaveApplied(o)
    /\ calls' = StoreCall(calls, c, RequestStep(calls[c], o))
    /\ applied' = [applied EXCEPT ![c] = IF got THEN @ + 1 ELSE @]
    /\ UNCHANGED <<cls, max_retries, client, closeCalls, scope, exitedBy, feed,
                   response, handled, base_url, path, url, method>>

NextWrite ==
    \/ \E c \in MainCalls, mth \in WriteMethods : WriteCall(c, mth)
    \/ \E c \in MainCalls, o \in ConcOutcomes, got \in BOOLEAN : WriteAttempt(c, o, got)

SpecWrite == InitWrite /\ [][NextWrite]_vars

(* ------------------------------ properties ----------------------------- *)

\* the error kind the status table gives a status >= 400
ExpectedKind(s) ==
    CASE s \in {401, 403} -> "AuthenticationError"
      [] s = 404 -> "ResourceNotFoundError"
      [] s = 422 -> "ValidationError"
      [] s = 429 -> "RateLimitError"
      [] s >= 500 -> "ServerError"
      [] OTHER -> "AtlasDNSException"

Transient(o) == o.t \in {"timeout", "connect"}
Started(call) == call.pc # "idle"
Done(call) == call.pc = "done"
FinalStatus(call) == Last(call).status_code
EndsInResponse(call) == Done(call) /\ Last(call).t = "response"

\* C1: a response with status s >= 400 makes the handler fail with exactly the
\* kind the status table gives s (401, 403 -> AuthenticationError, 404 ->
\* ResourceNotFoundError, 422 -> ValidationError, 429 -> RateLimitError,
\* s >= 500 -> ServerError, other 4xx -> AtlasDNSException), never a value.
C1_StatusTable ==
    (handled.tag # "none" /\ response.status_code >= 400)
        => handled = Raise(ExpectedKind(response.status_code))

C1_Witness ==
    /\ response.status_code = 502
    /\ handled.err = "ServerError"

\* C2: a call whose attempts all end in a timeout or a connection failure makes
\* at most max_retries transport attempts, for every configured max_retries >= 1.
C2_AttemptsBoundedByMaxRetries ==
    \A c \in DOMAIN calls :
        (\A i \in 1..Len(calls[c].hist) : Transient(calls[c].hist[i]))
            => Len(calls[c].hist) <= max_retries

\* C3: with the default configuration, a call whose first k attempts (k in 0..2)
\* end in a timeout or connection failure and whose attempt k+1 gets a successful
\* response returns that response's decoded result after exactly k+1 attempts:
\* it does not give up before the third attempt and attempts nothing after the
\* response.
C3_RetriesThenSuccess ==
    max_retries = DefaultMaxRetries =>
        \A c \in DOMAIN calls :
            LET call == calls[c]
                n == Len(call.hist)
            IN  /\ call.pc = "request" =>
                    /\ n < 3
                    /\ \A i \in 1..n : Transient(call.hist[i])
                /\ Done(call) =>
                    /\ n \in 1..3
                    /\ call.tries = n
                    /\ \A i \in 1..(n - 1) : Transient(call.hist[i])
                    /\ Transient(call.hist[n]) => n = 3
                    /\ (call.hist[n].t = "response" /\ call.hist[n].status_code < 400) =>
                          /\ ~IsError(call.ret)
                          /\ call.ret = IF json_loads(call.hist[n].text).ok
                                        THEN JsonResult(json_loads(call.hist[n].text).value)
                                        ELSE TextResult(call.hist[n].text)

C3_Witness ==
    /\ max_retries = DefaultMaxRetries
    /\ \E c \in DOMAIN calls :
          /\ Done(calls[c])
          /\ calls[c].cls = "AtlasDNSClient"
          /\ calls[c].hist = <<ConnectOutcome, ConnectOutcome,
                               ResponseOutcome(200, <<"[", "1", "]">>)>>
          /\ calls[c].ret = JsonResult(JArr(<<JNum(1)>>))

\* C4: a response with status >= 400 (429 and 5xx included) ends the call at
\* once with the mapped typed error; only timeouts and connection failures are
\* followed by another attempt.
C4_HttpErrorsNotRetried ==
    \A c \in DOMAIN calls :
        LET call == calls[c]
            n == Len(call.hist)
        IN  /\ \A i \in 1..n :
                  (i < n \/ call.pc = "request") => Transient(call.hist[i])
            /\ (EndsInResponse(call) /\ FinalStatus(call) >= 400) =>
                  /\ call.ret = Raise(ExpectedKind(FinalStatus(call)))
                  /\ call.ret.err \in TypedErrors

C4_Witness ==
    \E c \in DOMAIN calls :
        /\ Done(calls[c])
        /\ calls[c].cls = "AtlasDNSClient"
        /\ calls[c].hist = <<TimeoutOutcome, ResponseOutcome(503, <<"1", ",">>)>>
        /\ calls[c].ret.err = "ServerError"

\* C5: for a response with status below 400 the handler never fails: a body
\* that is valid JSON comes back as the structure it encodes, any other body
\* comes back as the raw text, unchanged.
C5_DecodeOrRawText ==
    (handled.tag # "none" /\ response.status_code < 400) =>
        /\ ~IsError(handled)
        /\ IF json_loads(response.text).ok
           THEN /\ handled.tag = "json"
                /\ handled.json = json_loads(response.text).value
                /\ json_dumps(handled.json) = response.text
           ELSE handled = TextResult(response.text)

C5_Witness ==
    /\ response.status_code = 200
    /\ response.text = <<"1", ",">>
    /\ handled = TextResult(<<"1", ",">>)

\* C6: every failure of a call is one of the typed errors of the closed
\* taxonomy, also after the retries are used up and for transport errors that
\* are not retried.
C6_FailuresAreTyped ==
    \A c \in DOMAIN calls :
        (Done(calls[c]) /\ IsError(calls[c].ret)) => calls[c].ret.err \in TypedErrors

\* C7: the client keeps the one transport handle made at construction, and once
\* a scoped block has been left the transport's release has been invoked exactly
\* once, never a second time by an explicit close in or after the block.
C7_ReleasedExactlyOnce ==
    /\ client = 1
    /\ scope = "exited" => closeCalls = 1

\* C8: fed the same transport outcomes under the same configuration, the
\* synchronous and the asynchronous _request make the same number of attempts
\* and end alike (same value or same error kind).
C8_SyncAsyncEquivalent ==
    Len(calls[SyncCall].hist) = Len(calls[AsyncCall].hist) =>
            /\ calls[SyncCall].pc = calls[AsyncCall].pc
            /\ calls[SyncCall].tries = calls[AsyncCall].tries
            /\ calls[SyncCall].hist = calls[AsyncCall].hist
            /\ calls[SyncCall].ret = calls[AsyncCall].ret
            /\ calls[SyncCall].result = calls[AsyncCall].result

C8_Witness ==
    /\ \A c \in EquivCalls :
          /\ Done(calls[c])
          /\ calls[c].hist = <<TimeoutOutcome, ConnectOutcome, ConnectOutcome>>
          /\ calls[c].ret = Raise("httpx.ConnectError")

\* C9: a delete operation returns True exactly when its _request call returned
\* without error and never returns False; on a final status >= 400 it fails
\* with the mapped typed error (ResourceNotFoundError for 404).
C9_DeleteTrueOrError ==
    \A c \in DOMAIN calls :
        (Done(calls[c]) /\ calls[c].op \in DeleteOps) =>
            /\ calls[c].result # BoolResult(FALSE)
            /\ (calls[c].result = BoolResult(TRUE)) <=> ~IsError(calls[c].ret)
            /\ IsError(calls[c].ret) => calls[c].result = calls[c].ret
            /\ (EndsInResponse(calls[c]) /\ FinalStatus(calls[c]) >= 400) =>
                  calls[c].result = Raise(ExpectedKind(FinalStatus(calls[c])))

C9_Witness ==
    \E c \in DOMAIN calls :
        /\ Done(calls[c])
        /\ calls[c].op = "delete_record"
        /\ FinalStatus(calls[c]) = 404
        /\ calls[c].result = Raise("ResourceNotFoundError")

\* what a call that is alone on the client has come to after the outcomes h
RECURSIVE Alone(_, _)
Alone(h, i) ==
    IF i > Len(h) THEN [pc |-> "request", ret |-> NoResult, n |-> i - 1]
    ELSE IF Transient(h[i]) /\ i < 3 THEN Alone(h, i + 1)
    ELSE [pc |-> "done", ret |-> RequestBody(h[i]), n |-> i]

\* C10: with several calls in flight on one client, each call's number of
\* attempts (up to 3) and its outcome are those it would have alone with its own
\* transport outcomes; failures of other calls neither use up its retries nor
\* change its result.
C10_CallsIndependent ==
    \A c \in DOMAIN calls :
        Started(calls[c]) =>
            LET alone == Alone(calls[c].hist, 1)
            IN  /\ calls[c].tries = Len(calls[c].hist)
                /\ alone.n = Len(calls[c].hist)
                /\ alone.pc = calls[c].pc
                /\ alone.ret = calls[c].ret

C10_Witness ==
    \E c, d \in DOMAIN calls :
        /\ c # d
        /\ Done(calls[c])
        /\ calls[c].hist = <<TimeoutOutcome, TimeoutOutcome, TimeoutOutcome>>
        /\ Done(calls[d])
        /\ calls[d].hist = <<ConnectOutcome, ConnectOutcome,
                             ResponseOutcome(200, <<"[", "1", "]">>)>>
        /\ calls[d].ret = JsonResult(JArr(<<JNum(1)>>))

\* C11: the URL of every issued request is the configured base address (without
\* trailing slashes), then /api/v2, then the operation path, also when the base
\* address has a path component of its own.
C11_UrlIsBasePrefixPath ==
    url # <<>> => url = base_url \o ApiPrefix \o path

\* C12: one write call (POST, PUT or DELETE) reaches the server at most once
\* after the server has received it: an attempt that times out after the server
\* applied the request is not sent again, so the server applies the request of
\* one call at most once.
C12_WriteAppliedAtMostOnce ==
    \A c \in DOMAIN applied :
        method[c] \in WriteMethods => applied[c] <= 1

====
